---- MODULE Spec2Model ----
(***************************************************************************)
(* youtube_channel_stats.py: main() and                                    *)
(* YoutubeChannelStats.collect_channel_stats() as a state machine.         *)
(*                                                                         *)
(* One process, no concurrency: pc is the position in main / in            *)
(* collect_channel_stats.  Every blocking call of the program (Athena      *)
(* query, one YouTube API call with its whole except-handler, the S3       *)
(* upload, one DDL statement, the log upload) is one action.               *)
(*                                                                         *)
(* Init is main before its try block.  credentials is the list as          *)
(* random.shuffle leaves it: a developer key is named by its place in      *)
(* that list (the code reads the list by index only).                      *)
(***************************************************************************)
EXTENDS Integers, Sequences, FiniteSets

\* ------------------------------------------------------------------ bounds
MaxCreds == 3
MaxChannels == 2

MaxCandidates == 2500

\* ------------------------------------------------------- program constants
WAIT_WHEN_SERVICE_UNAVAILABLE == 30
WAIT_WHEN_CONNECTION_RESET_BY_PEER == 60
\* size of a work batch (distributed variant)
BATCH_SIZE == 1000

\* -------------------------------------------------------------- the world
\* distinct snippet.channelId values of youtube_video_snippet
Upstream == 1..MaxChannels

\* what channels().list(part="statistics", id=...) returns for one id:
\* zero or one result item
ItemCounts == {0, 1}

\* the three-digit codes the except-handler looks for in str(e)
Codes == {"403", "500", "503"}

\* An HttpError e.  str(e) is
\*   <HttpError {status} when requesting {uri} returned "{reason}">
\* status is the HTTP status of the response; text is the set of codes
\* that occur in the rest of the string: the request URI (which carries
\* id=<channel id> and key=<developer key>) and the reason message.
HttpErrors == [status : {"403", "500", "503", "404"}, text : SUBSET Codes]

\* A socket.error e, by e.errno
SocketErrors == {"ECONNRESET", "EPIPE"}

VARIABLES
    pc,                         \* position in main / collect_channel_stats
    error,                      \* the exception propagating, "none" if none
    credentials,                \* self.credentials, after the shuffle
    table_exists,               \* youtube_channel_stats exists in Athena
    table_ids,                  \* ids the table shows in today's partition
    s3_ids,                     \* ids in today's partition files on S3
    channel_ids,                \* rows of tmp/channel_ids.csv
    current_key,                \* index into credentials, from 0
    youtube,                    \* developer key the client was built with, 0: no client
    num_channels,
    service_unavailable,
    connection_reset_by_peer,
    no_response,
    json_writer,                \* records written to youtube_channel_stats.json
    uploaded,                   \* objects uploaded by this run
    ddl,                        \* DDL statements issued by this run, in order
    log_saved,                  \* number of logger.save_to_s3() calls
    \* history of the current channel id (not read by the program)
    calls,                      \* API calls made for it
    slept,                      \* time.sleep calls made for it, by duration
    key_at_start,               \* current_key when its first call was made
    seen,                       \* kinds of failure it has met, by what was raised
    \* history of the run
    rejected,                   \* developer keys the 403 branch has moved past
    responses,                  \* successful responses: channel id and number of items
    \* history across runs of main
    run,                        \* which run of main this is, from 1
    first_stored,               \* ids of the records the first run uploaded
    \* the producer of the distributed variant
    producer,                   \* its position: "idle", "purge", "send"
    candidates,                 \* its candidate ids, in arrival order
    queue,                      \* the work queue: batches, oldest first
    sent                        \* candidates put on the queue so far

vars == <<pc, error, credentials, table_exists, table_ids, s3_ids, channel_ids,
          current_key, youtube, num_channels, service_unavailable,
          connection_reset_by_peer, no_response, json_writer, uploaded, ddl,
          log_saved, calls, slept, key_at_start, seen, rejected, responses,
          run, first_stored, producer, candidates, queue, sent>>

world == <<credentials, s3_ids>>
history == <<calls, slept, key_at_start, seen, rejected>>
across == <<run, first_stored>>
distribution == <<producer, candidates, queue, sent>>

NoSleep == [d \in {WAIT_WHEN_SERVICE_UNAVAILABLE, WAIT_WHEN_CONNECTION_RESET_BY_PEER} |-> 0]

\* ------------------------------------------------------------ pure pieces

\* ascending list of a finite set of integers: the rows of the query result
RECURSIVE SeqOf(_)
SeqOf(S) ==
    IF S = {} THEN <<>>
    ELSE LET m == CHOOSE x \in S : \A y \in S : x <= y
         IN <<m>> \o SeqOf(S \ {m})

\* EXTRA_CHANNEL never appended
CandidateIds_all(exists, shown) == Upstream

\* SELECT_DISTINCT_CHANNEL, with EXTRA_CHANNEL when the table exists
CandidateIds(exists, shown) ==
    IF ~exists THEN Upstream ELSE Upstream \ shown

\* the client always built on the first credential
DeveloperKey_first(creds, k) == creds[1]

\* self.credentials[k]['developer_key'], k from 0
DeveloperKey(creds, k) == creds[k + 1]

\* "403" in str(e)
StrContains(code, e) == code = e.status \/ code \in e.text

\* which except-branch of the HttpError handler is taken
HttpBranch(e) ==
    IF StrContains("403", e) THEN "AuthorizationInvalid"
    ELSE IF StrContains("503", e) \/ StrContains("500", e) THEN "ServiceUnavailable"
    ELSE "Unclassified"

\* e.errno != errno.ECONNRESET
SocketBranch(errno) ==
    IF errno /= "ECONNRESET" THEN "Unclassified" ELSE "ConnectionReset"

\* the cap misread as "fewer than 10"
ConnectionResetRetry_off(n) == n < 10

\* one retry too many
ConnectionResetRetry_late(n) == n <= 11

\* if connection_reset_by_peer <= 10
ConnectionResetRetry(n) == n <= 10

\* the cap misread as "fewer than 10"
ServiceUnavailableRetry_off(n) == n < 10

\* if service_unavailable <= 10
ServiceUnavailableRetry(n) == n <= 10

\* a step of two, skipping a credential
AdvanceKey_skip(k) == k + 2

\* the increment forgotten
AdvanceKey_stay(k) == k

\* current_key = current_key + 1
AdvanceKey(k) == k + 1

\* giving up one credential early
KeysExhausted_early(k, creds) == k >= Len(creds) - 1

\* if current_key >= len(self.credentials)
KeysExhausted(k, creds) == k >= Len(creds)

\* the counters initialised once, before the for loop
StartOfChannel_carry(su, cr, key) ==
    [service_unavailable |-> su, connection_reset_by_peer |-> cr, current_key |-> key]

\* lines 117-118: both counters start at zero for every row; current_key is
\* assigned before the loop (line 101) and not in it
StartOfChannel(su, cr, key) ==
    [service_unavailable |-> 0, connection_reset_by_peer |-> 0, current_key |-> key]

\* num_channels = num_channels + 1
CountChannel(n) == n + 1

\* the write forgotten
Records_lost(id, items) == <<>>

\* lines 169-171: one line per item of the response
Records(id, items) == [i \in 1..items |-> id]

\* the zero-based index of the last row instead of the count
FilenameCount_index(n) == n - 1

\* the last field of s3_filename
FilenameCount(n) == n

\* the exception swallowed: the for loop goes on with the next row
Raise_swallowed == "for"

\* save_to_s3 after the call instead of in a finally: a raise leaves main
Raise_uncaught == "exit"

\* where a raise of the except-handlers lands: main's finally
Raise == "finally"

\* CREATE issued before DROP
RecreateStatements_swapped == <<"CREATE", "DROP", "MSCK REPAIR">>

\* the three statements of "Recreate table"
RecreateStatements == <<"DROP", "CREATE", "MSCK REPAIR">>

\* the kind of a failure by what was raised (the Trigger column of the
\* policy table), whatever branch the handler then takes
HttpKind(e) ==
    CASE e.status = "403" -> "AuthorizationInvalid"
      [] e.status \in {"500", "503"} -> "ServiceUnavailable"
      [] OTHER -> "Unclassified"

\* ------------------------------------------------------------------- Init
\* the single-process program of src/
InitRun ==
    /\ pc = "main"
    /\ error = "none"
    /\ \E n \in 0..MaxCreds : credentials = [i \in 1..n |-> i]
    /\ table_exists \in BOOLEAN
    /\ \E j \in 0..MaxChannels : s3_ids = 1..j
    /\ table_ids = IF table_exists THEN s3_ids ELSE {}
    /\ channel_ids = <<>>
    /\ current_key = 0
    /\ youtube = 0
    /\ num_channels = 0
    /\ service_unavailable = 0
    /\ connection_reset_by_peer = 0
    /\ no_response = FALSE
    /\ json_writer = <<>>
    /\ uploaded = <<>>
    /\ ddl = <<>>
    /\ log_saved = 0
    /\ calls = 0
    /\ slept = NoSleep
    /\ key_at_start = 0
    /\ seen = {}
    /\ rejected = {}
    /\ responses = <<>>
    /\ run = 1
    /\ first_stored = {}

\* the producer is not part of the single-process program
Init ==
    /\ InitRun
    /\ producer = "idle"
    /\ candidates = <<>>
    /\ queue = <<>>
    /\ sent = 0

\* ---------------------------------------------------------------- actions

\* lines 221-225: YoutubeChannelStats(...) inside main's try; config['youtube']
\* and the other keys are read there, and a config without them raises
Construct ==
    /\ pc = "main"
    /\ \E config_ok \in BOOLEAN :
         IF config_ok
         THEN /\ pc' = "query"
              /\ error' = error
         ELSE /\ pc' = "finally"
              /\ error' = "KeyError"
    /\ UNCHANGED <<world, table_exists, table_ids, channel_ids, current_key,
                   youtube, num_channels, service_unavailable,
                   connection_reset_by_peer, no_response, json_writer, uploaded,
                   ddl, log_saved, history, responses, across>>
    /\ UNCHANGED distribution

\* lines 86-106: the candidate query and the first client
Query ==
    /\ pc = "query"
    /\ channel_ids' = SeqOf(CandidateIds(table_exists, table_ids))
    /\ current_key' = 0
    /\ IF Len(credentials) = 0
       THEN /\ error' = "IndexError"
            /\ pc' = "finally"
            /\ youtube' = youtube
       ELSE /\ error' = error
            /\ pc' = "for"
            /\ youtube' = DeveloperKey(credentials, 0)
    /\ num_channels' = 0
    /\ json_writer' = <<>>
    /\ UNCHANGED <<world, table_exists, table_ids, service_unavailable,
                   connection_reset_by_peer, no_response, uploaded, ddl,
                   log_saved, history>>
    /\ responses' = <<>>
    /\ UNCHANGED across
    /\ UNCHANGED distribution

\* lines 112-120: the next row of the csv
NextChannel ==
    /\ pc = "for"
    /\ num_channels < Len(channel_ids)
    /\ num_channels' = CountChannel(num_channels)
    /\ LET start == StartOfChannel(service_unavailable, connection_reset_by_peer,
                                    current_key)
       IN /\ service_unavailable' = start.service_unavailable
          /\ connection_reset_by_peer' = start.connection_reset_by_peer
          /\ current_key' = start.current_key
    /\ no_response' = TRUE
    /\ pc' = "call"
    /\ calls' = 0
    /\ slept' = NoSleep
    /\ key_at_start' = current_key
    /\ seen' = {}
    /\ rejected' = rejected
    /\ UNCHANGED <<world, error, table_exists, table_ids, channel_ids,
                   youtube, json_writer, uploaded, ddl, log_saved>>
    /\ UNCHANGED <<responses, across>>
    /\ UNCHANGED distribution

\* lines 123-124, 169-171: the call answers; its items are written
CallSucceeds ==
    /\ pc = "call"
    /\ \E items \in ItemCounts :
         /\ json_writer' = json_writer \o Records(channel_ids[num_channels], items)
         /\ responses' = Append(responses,
                                [id |-> channel_ids[num_channels], items |-> items])
    /\ no_response' = FALSE
    /\ pc' = "for"
    /\ calls' = calls + 1
    /\ UNCHANGED <<world, error, table_exists, table_ids, channel_ids, current_key,
                   youtube, num_channels, service_unavailable,
                   connection_reset_by_peer, uploaded, ddl, log_saved,
                   slept, key_at_start, seen, rejected>>
    /\ UNCHANGED across
    /\ UNCHANGED distribution

\* lines 125-141: the call raises socket.error
CallSocketError ==
    /\ pc = "call"
    /\ \E errno \in SocketErrors :
         /\ seen' = seen \cup {SocketBranch(errno)}
         /\ IF SocketBranch(errno) = "Unclassified"
            THEN /\ error' = "OtherSocketError"
                 /\ pc' = Raise
                 /\ UNCHANGED <<connection_reset_by_peer, slept, youtube>>
            ELSE /\ connection_reset_by_peer' = connection_reset_by_peer + 1
                 /\ IF ConnectionResetRetry(connection_reset_by_peer')
                    THEN /\ slept' = [slept EXCEPT
                                ![WAIT_WHEN_CONNECTION_RESET_BY_PEER] = @ + 1]
                         /\ youtube' = DeveloperKey(credentials, current_key)
                         /\ UNCHANGED <<error, pc>>
                    ELSE /\ error' = "ConnectionResetCap"
                         /\ pc' = Raise
                         /\ UNCHANGED <<slept, youtube>>
    /\ calls' = calls + 1
    /\ UNCHANGED <<world, table_exists, table_ids, channel_ids, current_key,
                   num_channels, service_unavailable, no_response, json_writer,
                   uploaded, ddl, log_saved, key_at_start, rejected>>
    /\ UNCHANGED <<responses, across>>
    /\ UNCHANGED distribution

\* lines 142-168: the call raises HttpError
CallHttpError ==
    /\ pc = "call"
    /\ \E e \in HttpErrors :
         /\ seen' = seen \cup {HttpKind(e)}
         /\ rejected' = IF HttpBranch(e) = "AuthorizationInvalid"
                        THEN rejected \cup {youtube} ELSE rejected
         /\ CASE HttpBranch(e) = "AuthorizationInvalid" ->
                   /\ current_key' = AdvanceKey(current_key)
                   /\ IF KeysExhausted(current_key', credentials)
                      THEN /\ error' = "CredentialsExhausted"
                           /\ pc' = Raise
                           /\ youtube' = youtube
                      ELSE /\ youtube' = DeveloperKey(credentials, current_key')
                           /\ UNCHANGED <<error, pc>>
                   /\ UNCHANGED <<service_unavailable, slept>>
              [] HttpBranch(e) = "ServiceUnavailable" ->
                   /\ service_unavailable' = service_unavailable + 1
                   /\ IF ServiceUnavailableRetry(service_unavailable')
                      THEN /\ slept' = [slept EXCEPT
                                  ![WAIT_WHEN_SERVICE_UNAVAILABLE] = @ + 1]
                           /\ UNCHANGED <<error, pc>>
                      ELSE /\ error' = "ServiceUnavailableCap"
                           /\ pc' = Raise
                           /\ slept' = slept
                   /\ UNCHANGED <<current_key, youtube>>
              [] OTHER ->
                   /\ error' = "OtherHttpError"
                   /\ pc' = Raise
                   /\ UNCHANGED <<current_key, youtube, service_unavailable, slept>>
    /\ calls' = calls + 1
    /\ UNCHANGED <<world, table_exists, table_ids, channel_ids, num_channels,
                   connection_reset_by_peer, no_response, json_writer,
                   uploaded, ddl, log_saved, key_at_start>>
    /\ UNCHANGED <<responses, across>>
    /\ UNCHANGED distribution

\* lines 173-182: the csv is read through; compress and upload
Upload ==
    /\ pc = "for"
    /\ num_channels >= Len(channel_ids)
    /\ uploaded' = Append(uploaded,
                          [count |-> FilenameCount(num_channels),
                           records |-> json_writer])
    /\ s3_ids' = s3_ids \cup {json_writer[i] : i \in 1..Len(json_writer)}
    /\ pc' = "recreate"
    /\ UNCHANGED <<credentials, error, table_exists, table_ids, channel_ids,
                   current_key, youtube, num_channels, service_unavailable,
                   connection_reset_by_peer, no_response, json_writer, ddl,
                   log_saved, history>>
    /\ first_stored' = IF run = 1
                     THEN {json_writer[i] : i \in 1..Len(json_writer)}
                     ELSE first_stored
    /\ UNCHANGED <<responses, run>>
    /\ UNCHANGED distribution

\* lines 185-187: one statement of the table's recreation
Recreate ==
    /\ pc = "recreate"
    /\ LET stmt == RecreateStatements[Len(ddl) + 1]
       IN /\ ddl' = Append(ddl, stmt)
          /\ CASE stmt = "DROP" ->
                    /\ table_exists' = FALSE
                    /\ table_ids' = {}
               [] stmt = "CREATE" ->
                    /\ table_exists' = TRUE
                    /\ table_ids' = table_ids
               [] OTHER ->
                    /\ table_ids' = IF table_exists THEN s3_ids ELSE table_ids
                    /\ table_exists' = table_exists
    /\ pc' = IF Len(ddl') = Len(RecreateStatements) THEN "finally" ELSE "recreate"
    /\ UNCHANGED <<world, error, channel_ids, current_key, youtube, num_channels,
                   service_unavailable, connection_reset_by_peer, no_response,
                   json_writer, uploaded, log_saved, history>>
    /\ UNCHANGED <<responses, across>>
    /\ UNCHANGED distribution

\* lines 227-228: main's finally
SaveLog ==
    /\ pc = "finally"
    /\ log_saved' = log_saved + 1
    /\ pc' = "exit"
    /\ UNCHANGED <<world, error, table_exists, table_ids, channel_ids, current_key,
                   youtube, num_channels, service_unavailable,
                   connection_reset_by_peer, no_response, json_writer, uploaded,
                   ddl, history>>
    /\ UNCHANGED <<responses, across>>
    /\ UNCHANGED distribution

Next ==
    \/ Construct
    \/ Query
    \/ NextChannel
    \/ CallSucceeds
    \/ CallSocketError
    \/ CallHttpError
    \/ Upload
    \/ Recreate
    \/ SaveLog

Spec == Init /\ [][Next]_vars

\* ------------------------------------------- producer (distributed variant)
\* The producer's code is not in src/; it is modelled from section 4.4 of
\* the specification: purge the queue, then send the candidate ids in
\* arrival order as batches of BATCH_SIZE.

Min(a, b) == IF a <= b THEN a ELSE b

\* every batch one id short
NextBatch_short(ids, n) == SubSeq(ids, n + 1, Min(n + BATCH_SIZE - 1, Len(ids)))

\* the next batch when n ids are already on the queue
NextBatch(ids, n) == SubSeq(ids, n + 1, Min(n + BATCH_SIZE, Len(ids)))

InitBatch ==
    /\ InitRun
    /\ Len(credentials) = 0
    /\ ~table_exists
    /\ s3_ids = {}
    /\ producer = "purge"
    /\ \E c \in 0..MaxCandidates : candidates = [i \in 1..c |-> i]
    /\ queue \in {<<>>, << <<0>> >>}
    /\ sent = 0

\* leftover messages of an earlier run are removed
Purge ==
    /\ producer = "purge"
    /\ queue' = <<>>
    /\ producer' = "send"
    /\ UNCHANGED <<pc, error, world, table_exists, table_ids, channel_ids,
                   current_key, youtube, num_channels, service_unavailable,
                   connection_reset_by_peer, no_response, json_writer, uploaded,
                   ddl, log_saved, history, responses, across, candidates, sent>>

\* one batch is sent
SendBatch ==
    /\ producer = "send"
    /\ sent < Len(candidates)
    /\ queue' = Append(queue, NextBatch(candidates, sent))
    /\ sent' = sent + Len(NextBatch(candidates, sent))
    /\ UNCHANGED <<pc, error, world, table_exists, table_ids, channel_ids,
                   current_key, youtube, num_channels, service_unavailable,
                   connection_reset_by_peer, no_response, json_writer, uploaded,
                   ddl, log_saved, history, responses, across, candidates, producer>>

NextBatches ==
    \/ Purge
    \/ SendBatch

SpecBatch == InitBatch /\ [][NextBatches]_vars

\* ------------------------------------------------------- main run again
\* lines 232-233: the script is started a second time on the same day.  The
\* new process starts from scratch; the bucket and the Athena table are as
\* the first run left them.
Rerun ==
    /\ pc = "exit"
    /\ run = 1
    /\ run' = 2
    /\ pc' = "main"
    /\ error' = "none"
    /\ channel_ids' = <<>>
    /\ current_key' = 0
    /\ youtube' = 0
    /\ num_channels' = 0
    /\ service_unavailable' = 0
    /\ connection_reset_by_peer' = 0
    /\ no_response' = FALSE
    /\ json_writer' = <<>>
    /\ uploaded' = <<>>
    /\ ddl' = <<>>
    /\ log_saved' = 0
    /\ calls' = 0
    /\ slept' = NoSleep
    /\ key_at_start' = 0
    /\ seen' = {}
    /\ rejected' = {}
    /\ responses' = <<>>
    /\ UNCHANGED <<world, table_exists, table_ids, first_stored>>
    /\ UNCHANGED distribution

NextTwice ==
    \/ Next
    \/ Rerun

\* two runs with a single developer key in the config: the candidate query
\* does not read the credentials
InitTwice == Init /\ Len(credentials) = 1

SpecTwice == InitTwice /\ [][NextTwice]_vars

\* ----------------------------------------------------------------- claims

\* the latest channel id has its response
Succeeded == num_channels > 0 /\ ~no_response /\ error = "none"

\* the retry loop has raised
Failed ==
    error \in {"OtherSocketError", "ConnectionResetCap", "CredentialsExhausted",
               "ServiceUnavailableCap", "OtherHttpError"}

Slept30 == slept[WAIT_WHEN_SERVICE_UNAVAILABLE]
Slept60 == slept[WAIT_WHEN_CONNECTION_RESET_BY_PEER]

\* C1 (as claimed): when every failure of a channel id is an HTTP 503/500
\* error, N <= 10 of them followed by a success cost exactly N sleeps of
\* 30 s and N+1 calls on one credential, and the 11th ends the call in
\* Failed after exactly 10 sleeps and 11 calls.
C1_ServiceUnavailableCap ==
    /\ (Succeeded /\ seen \subseteq {"ServiceUnavailable"}) =>
          /\ calls - 1 <= 10
          /\ Slept30 = calls - 1
          /\ Slept60 = 0
          /\ current_key = key_at_start
    /\ (seen = {"ServiceUnavailable"} /\ ~Succeeded /\ calls >= 11) =>
          /\ error = "ServiceUnavailableCap"
          /\ calls = 11
          /\ Slept30 = 10

\* C2: every connection reset of a channel id up to the 10th is followed by
\* one sleep of 60 s and a client rebuilt on the same credential; the 11th
\* raises, with no sleep and no call after it.
C2_ConnectionResetPolicy ==
    /\ connection_reset_by_peer <= 11
    /\ Slept60 = (IF connection_reset_by_peer <= 10
                  THEN connection_reset_by_peer ELSE 10)
    /\ (connection_reset_by_peer = 11) <=> (error = "ConnectionResetCap")
    /\ error = "ConnectionResetCap" => pc \in {"finally", "exit"}
    /\ (pc = "call" /\ connection_reset_by_peer > 0) =>
          youtube = DeveloperKey(credentials, current_key)
    /\ ("ConnectionReset" \in seen /\ seen \subseteq {"ConnectionReset"}) =>
          /\ current_key = key_at_start
          /\ Slept30 = 0
          /\ calls = connection_reset_by_peer + (IF Succeeded THEN 1 ELSE 0)

C2_Witness ==
    /\ error = "ConnectionResetCap"
    /\ seen = {"ConnectionReset"}
    /\ calls = 11
    /\ Slept60 = 10
    /\ pc = "exit"

\* C3: when every failure of a channel id is an HTTP 403, the id succeeds
\* after one advance and one call per rejected credential plus the
\* successful call, without any sleep: with k1 and k2 rejected, the
\* current credential is the third after two advances and 3 calls.
C3_CredentialRotation ==
    (Succeeded /\ seen = {"AuthorizationInvalid"}) =>
        /\ current_key - key_at_start = calls - 1
        /\ Cardinality(rejected) = current_key
        /\ youtube = DeveloperKey(credentials, current_key)
        /\ youtube \notin rejected
        /\ Slept30 = 0 /\ Slept60 = 0

C3_Witness ==
    /\ Succeeded
    /\ seen = {"AuthorizationInvalid"}
    /\ Len(credentials) = 3
    /\ key_at_start = 0
    /\ current_key = 2
    /\ youtube = 3
    /\ calls = 3

\* C4: when every call of the run is answered by HTTP 403, the run raises
\* right after the last credential is rejected, having made exactly one
\* call per credential, and the index never goes back to the first one.
C4_Exhaustion ==
    (num_channels = 1 /\ seen = {"AuthorizationInvalid"}) =>
        /\ key_at_start = 0
        /\ current_key <= Len(credentials)
        /\ (current_key = Len(credentials)) <=> (error = "CredentialsExhausted")
        /\ rejected = 1..current_key
        /\ calls = current_key + (IF Succeeded THEN 1 ELSE 0)
        /\ error = "CredentialsExhausted" =>
              /\ calls = Len(credentials)
              /\ pc \in {"finally", "exit"}

C4_Witness ==
    /\ error = "CredentialsExhausted"
    /\ seen = {"AuthorizationInvalid"}
    /\ num_channels = 1
    /\ Len(credentials) = 3
    /\ calls = 3
    /\ pc = "exit"

\* C5: over the whole run the credential index never goes back behind a
\* rejected credential, and no call is made with a client built on a
\* rejected credential, whatever the channel id.
C5_NoReuseOfRejected ==
    /\ key_at_start <= current_key
    /\ \A k \in rejected : k <= current_key
    /\ pc = "call" =>
          /\ youtube \notin rejected
          /\ youtube = DeveloperKey(credentials, current_key)

C5_Witness ==
    /\ pc = "call"
    /\ num_channels = 2
    /\ key_at_start = 1
    /\ rejected = {1}
    /\ youtube = 2

\* C6 (as claimed): a failure of another class sets the count of the
\* earlier class back to zero, so the two counters are never both
\* positive while one channel id is retried.
C6_ResetOnClassChange ==
    ~(service_unavailable > 0 /\ connection_reset_by_peer > 0)

\* C6 (amended): each class has its own counter, zero at the start of a
\* channel id and never set back while that id is retried: every call made
\* for the id is counted once, and the cap raises at the 11th failure of
\* a class for the id, with or without failures of other classes between.
C6_CountersPerChannelId ==
    /\ service_unavailable \in 0..11
    /\ connection_reset_by_peer \in 0..11
    /\ num_channels > 0 =>
          calls = service_unavailable + connection_reset_by_peer
                  + (current_key - key_at_start)
                  + (IF Succeeded THEN 1 ELSE 0)
                  + (IF error \in {"OtherSocketError", "OtherHttpError"} THEN 1 ELSE 0)
    /\ (service_unavailable = 11) <=> (error = "ServiceUnavailableCap")
    /\ (connection_reset_by_peer = 11) <=> (error = "ConnectionResetCap")

C6_Witness ==
    /\ error = "ServiceUnavailableCap"
    /\ service_unavailable = 11
    /\ connection_reset_by_peer = 10
    /\ current_key > key_at_start

\* C7 (as claimed): a socket error other than a connection reset, or an
\* HTTP error whose status is none of 403, 500, 503, ends the run at once:
\* once one has been met the run has raised it and is past the loop.
C7_UnclassifiedIsFatal ==
    "Unclassified" \in seen =>
        /\ error \in {"OtherSocketError", "OtherHttpError"}
        /\ pc \in {"finally", "exit"}

\* C8 (as claimed): the count in the key of an uploaded object is the
\* number of records in the object.
C8_KeyCountIsRecordCount ==
    \A i \in 1..Len(uploaded) : uploaded[i].count = Len(uploaded[i].records)

\* C8 (amended): the count in the key of the uploaded object is the number
\* of channel ids the run has processed, whatever number of records they
\* returned.
C8_KeyCountIsChannelCount ==
    \A i \in 1..Len(uploaded) :
        /\ uploaded[i].count = Len(channel_ids)
        /\ uploaded[i].records = json_writer

C8_Witness ==
    /\ Len(uploaded) = 1
    /\ uploaded[1].count = 2
    /\ Len(uploaded[1].records) = 1

\* C9: DROP, CREATE, MSCK REPAIR are issued in that order, each at most
\* once in a run, and only when every candidate id has its response and
\* the one result object is uploaded; none while an id is unprocessed or
\* a call is pending.
C9_RecreateOnceAtTheEnd ==
    /\ Len(ddl) <= 3
    /\ \A i \in 1..Len(ddl) : ddl[i] = <<"DROP", "CREATE", "MSCK REPAIR">>[i]
    /\ ddl /= <<>> =>
          /\ Len(uploaded) = 1
          /\ num_channels = Len(channel_ids)
          /\ ~no_response
          /\ error = "none"
          /\ pc \in {"recreate", "finally", "exit"}
    /\ pc \in {"query", "for", "call"} => ddl = <<>>

C9_Witness ==
    /\ ddl = <<"DROP", "CREATE", "MSCK REPAIR">>
    /\ Len(channel_ids) = 2
    /\ pc = "exit"

\* C10: once the retry loop has raised, no other id is fetched, nothing is
\* uploaded (the records already written stay unpublished), no DDL is
\* issued, and the run's candidate ids are not in the table's partition.
C10_FailedAbortsTheRun ==
    Failed =>
        /\ pc \in {"finally", "exit"}
        /\ uploaded = <<>>
        /\ ddl = <<>>
        /\ \A i \in 1..Len(channel_ids) : channel_ids[i] \notin table_ids

C10_Witness ==
    /\ Failed
    /\ num_channels = 2
    /\ Len(json_writer) = 1
    /\ pc = "exit"

\* C11: the candidates of a second run on the same day hold no id whose
\* record the first run uploaded; and the candidates of any run are the
\* upstream ids without the ids of today's partition exactly when the
\* table exists at the start of the run, and all upstream ids otherwise.
C11_IdempotentDedupe ==
    /\ (run = 2 /\ pc \notin {"main", "query"}) =>
          \A i \in 1..Len(channel_ids) : channel_ids[i] \notin first_stored
    /\ pc \in {"for", "call"} =>
          {channel_ids[i] : i \in 1..Len(channel_ids)} =
              (IF table_exists THEN Upstream \ table_ids ELSE Upstream)
    /\ (run = 2 /\ pc = "query" /\ first_stored /= {}) =>
          /\ table_exists
          /\ first_stored \subseteq table_ids

C11_Witness ==
    /\ run = 2
    /\ pc = "call"
    /\ first_stored = {1}
    /\ channel_ids = <<2>>

\* C12: the retry loop of one channel id makes at most 21 calls plus one
\* per credential after the one it started on (10 unavailable retries, 10
\* reset retries, one rotation per remaining credential, and the call that
\* ends it); while the loop is still running it has made fewer.
CallBound == 21 + (Len(credentials) - 1 - key_at_start)

C12_RetryLoopBounded ==
    num_channels > 0 =>
        /\ calls <= CallBound
        /\ pc = "call" => calls < CallBound
        /\ calls = CallBound => (Succeeded \/ Failed)

C12_Witness ==
    /\ Len(credentials) = 3
    /\ key_at_start = 0
    /\ calls = 23
    /\ Succeeded

\* C13: whenever a call is about to be made, the credential index is
\* within 0..len(credentials)-1, the client was built with the key at that
\* index, and that key is none of those rejected so far, which are exactly
\* the keys before the index.
C13_CallUsesCurrentCredential ==
    pc = "call" =>
        /\ current_key \in 0..(Len(credentials) - 1)
        /\ youtube = credentials[current_key + 1]
        /\ youtube \notin rejected
        /\ rejected = {credentials[i] : i \in 1..current_key}

C13_Witness ==
    /\ pc = "call"
    /\ current_key = 2
    /\ youtube = 3
    /\ rejected = {1, 2}
    /\ calls = 2

\* the lines a list of responses puts in the file, in order
RECURSIVE Written(_)
Written(rs) ==
    IF rs = <<>> THEN <<>>
    ELSE [i \in 1..Head(rs).items |-> Head(rs).id] \o Written(Tail(rs))

\* C14: as long as the run has not failed, the ids that have their one
\* response are the candidates in csv order up to the current row (all
\* rows before the one being called), the file holds the items of those
\* responses in that order, and the one upload is made only after the
\* last row, with the whole file.
C14_SequentialThenOneFlush ==
    (error = "none" /\ pc \notin {"main", "query"}) =>
        /\ Len(responses) = num_channels - (IF pc = "call" THEN 1 ELSE 0)
        /\ \A i \in 1..Len(responses) : responses[i].id = channel_ids[i]
        /\ json_writer = Written(responses)
        /\ Len(uploaded) <= 1
        /\ pc \in {"for", "call"} => uploaded = <<>>
        /\ uploaded /= <<>> =>
              /\ Len(responses) = Len(channel_ids)
              /\ uploaded[1].records = Written(responses)

C14_Witness ==
    /\ pc = "exit"
    /\ error = "none"
    /\ Len(responses) = 2
    /\ json_writer = <<1, 2>>
    /\ Len(uploaded) = 1
    /\ slept /= NoSleep

\* all batches of a queue, one after the other
RECURSIVE Concat(_)
Concat(q) == IF q = <<>> THEN <<>> ELSE Head(q) \o Concat(Tail(q))

AllSent == producer = "send" /\ sent = Len(candidates)

\* C15: the batches on the queue are the candidate ids in arrival order,
\* cut every 1000: every batch but the last holds exactly 1000 ids, none
\* is empty, together they are the ids sent so far, each once; when all
\* are sent there are ceil(C/1000) batches, and for C = 2500 they hold
\* 1000, 1000 and 500 ids.
C15_BatchPartitioning ==
    producer = "send" =>
        /\ Concat(queue) = SubSeq(candidates, 1, sent)
        /\ \A i \in 1..Len(queue) :
              /\ Len(queue[i]) \in 1..1000
              /\ i < Len(queue) => Len(queue[i]) = 1000
        /\ AllSent =>
              /\ Len(queue) = (Len(candidates) + 999) \div 1000
              /\ Len(candidates) = 2500 =>
                    <<Len(queue[1]), Len(queue[2]), Len(queue[3])>> = <<1000, 1000, 500>>

C15_Witness ==
    /\ AllSent
    /\ Len(candidates) = 2500
    /\ Len(queue) = 3
    /\ Len(queue[3]) = 500

\* C16: a call that ends in a connection-reset or service-unavailable
\* retry leaves the credential index as it was (after a reset the client
\* is rebuilt on the key at that same index) and leaves the other class's
\* counter alone; a call that ends in an advance moves the index by one
\* and leaves both counters and the sleeps as they were.
C16_RetryFrames ==
    [][pc = "call" =>
         /\ connection_reset_by_peer' /= connection_reset_by_peer =>
               /\ current_key' = current_key
               /\ service_unavailable' = service_unavailable
               /\ pc' = "call" => youtube' = credentials[current_key + 1]
         /\ service_unavailable' /= service_unavailable =>
               /\ current_key' = current_key
               /\ youtube' = youtube
               /\ connection_reset_by_peer' = connection_reset_by_peer
         /\ current_key' /= current_key =>
               /\ current_key' = current_key + 1
               /\ service_unavailable' = service_unavailable
               /\ connection_reset_by_peer' = connection_reset_by_peer
               /\ slept' = slept
      ]_vars

C16_Witness ==
    /\ pc = "call"
    /\ connection_reset_by_peer = 2
    /\ service_unavailable = 2
    /\ current_key = key_at_start + 1
    /\ youtube = credentials[current_key + 1]
    /\ calls = 5

\* C17: the step that starts a channel id sets both counters to zero,
\* whatever they were for the id before, and leaves the credential index,
\* the client and the rejected keys as the id before left them.
C17_BudgetsPerIdKeyPerRun ==
    [][(pc = "for" /\ pc' = "call") =>
         /\ service_unavailable' = 0
         /\ connection_reset_by_peer' = 0
         /\ current_key' = current_key
         /\ youtube' = youtube
         /\ rejected' = rejected
      ]_vars

C17_Witness ==
    /\ pc = "call"
    /\ num_channels = 2
    /\ calls = 0
    /\ service_unavailable = 0
    /\ connection_reset_by_peer = 0
    /\ current_key = 1
    /\ rejected = {1}
    /\ youtube = 2

\* C18: when the query returns no candidate and there is a credential,
\* the run makes no call and does not fail, uploads one object with no
\* record and count 0, and then issues DROP, CREATE, MSCK REPAIR.
C18_EmptyCandidateSet ==
    (pc \notin {"main", "query"} /\ error /= "KeyError"
        /\ channel_ids = <<>> /\ Len(credentials) > 0) =>
        /\ pc /= "call"
        /\ num_channels = 0
        /\ calls = 0
        /\ responses = <<>>
        /\ error = "none"
        /\ pc = "for" => uploaded = <<>>
        /\ pc \in {"recreate", "finally", "exit"} =>
              uploaded = << [count |-> 0, records |-> <<>>] >>
        /\ pc \in {"finally", "exit"} => ddl = <<"DROP", "CREATE", "MSCK REPAIR">>

C18_Witness ==
    /\ pc = "exit"
    /\ channel_ids = <<>>
    /\ Len(credentials) = 1
    /\ uploaded = << [count |-> 0, records |-> <<>>] >>
    /\ Len(ddl) = 3

\* C19: main saves the log once, as its last step, on every path: the run
\* goes on until it has, a failure (in the constructor too) goes straight
\* to the save, and is still there after it; a run that ends without a
\* failure has done its upload and the three statements.
C19_LogSavedOnceOnEveryPath ==
    /\ log_saved \in {0, 1}
    /\ (log_saved = 1) <=> (pc = "exit")
    /\ error /= "none" => pc \in {"finally", "exit"}
    /\ (pc = "exit" /\ error = "none") =>
          /\ Len(uploaded) = 1
          /\ Len(ddl) = 3
    /\ pc /= "exit" => ENABLED Next

C19_Witness ==
    /\ pc = "exit"
    /\ error = "KeyError"
    /\ log_saved = 1
    /\ youtube = 0

====
